---- MODULE Spec2Model ----
(***************************************************************************)
(* A model of SlothDB: the Client's memtable (src/db/client.rs), the       *)
(* SSTable codec (src/io/table.rs), the merge iterator                     *)
(* (src/lsm/merge_iter.rs) and the LSM tree (src/lsm/tree.rs).             *)
(*                                                                         *)
(* Strings are sequences of one-character strings, so that formatting an   *)
(* index line and parsing it back are two different computations.  A table *)
(* base name "{tree}-{level}-{generation}" is the pair <<level,            *)
(* generation>>: the model has one tree whose name holds no dash, as in    *)
(* the tests of tree.rs.                                                   *)
(***************************************************************************)
EXTENDS Integers, Sequences, FiniteSets, TLC

VARIABLES
    mem_table,   \* Client.mem_table: Vec<KV>
    max_size,    \* Client.max_size: the flush threshold M
    levels,      \* LsmTree.levels: Vec<LsmLevel>, each [count, tables, max_size]
    idx,         \* the file system: base name -> contents of "{base}.index"
    dat,         \* the file system: base name -> contents of "{base}.data"
    op,          \* the last operation run and what it returned
    written,     \* history: key -> the value of the last write of that key
    hist,        \* history: how many writes were made, whether a load was,
                 \* which keys were put again with another value
    mrg          \* the inputs of the operations run on their own (the codec,
                 \* the merge iterator, load by name) and how far they got

vars == <<mem_table, max_size, levels, idx, dat, op, written, hist, mrg>>

----------------------------------------------------------------------------
(* Bounds of the model *)

\* the largest flush threshold M a Client is constructed with
MaxM == 4
\* the number of Client.put calls of a run
MaxPuts == 6
\* the number of LsmTree.add calls of a run
MaxAdds == 6
\* the longest record stream handed to the codec operations
MaxStream == 2
MaxElem == 3
MaxFaultAdds == 4

\* const LEVEL_SCALING_FACTOR
LEVEL_SCALING_FACTOR == 1

----------------------------------------------------------------------------
(* Strings *)

Digits == <<"0", "1", "2", "3", "4", "5", "6", "7", "8", "9">>

\* the characters of the model in byte order (String's Ord compares bytes)
Alphabet == <<"\n", ",", "0", "1", "2", "3", "4", "5", "6", "7", "8", "9",
              ":", "a", "b", "c", "x", "y">>

CharOrd(c) == CHOOSE i \in 1..Len(Alphabet) : Alphabet[i] = c

Min(a, b) == IF a <= b THEN a ELSE b

SetMin(S) == CHOOSE x \in S : \A y \in S : x <= y
SetMax(S) == CHOOSE x \in S : \A y \in S : x >= y

\* s < t for two Strings: the first differing byte decides, a proper prefix
\* is smaller
StrLess(s, t) ==
    LET n == Min(Len(s), Len(t))
        diff == {i \in 1..n : s[i] # t[i]}
    IN  IF diff = {}
        THEN Len(s) < Len(t)
        ELSE LET d == CHOOSE i \in diff : \A j \in diff : i <= j
             IN  CharOrd(s[d]) < CharOrd(t[d])

\* str::starts_with
StartsWith(l, key) ==
    /\ Len(key) <= Len(l)
    /\ \A i \in 1..Len(key) : l[i] = key[i]

\* the decimal text of an unsigned integer ({} of format!)
RECURSIVE FormatInt(_)
FormatInt(n) ==
    IF n < 10 THEN <<Digits[n + 1]>>
    ELSE FormatInt(n \div 10) \o <<Digits[(n % 10) + 1]>>

\* [String].join(sep)
RECURSIVE Join(_, _)
Join(strs, sep) ==
    IF Len(strs) = 0 THEN <<>>
    ELSE IF Len(strs) = 1 THEN strs[1]
    ELSE strs[1] \o sep \o Join(Tail(strs), sep)

\* str::split(sep) for a one-character separator: at least one part, empty
\* parts kept
RECURSIVE SplitFrom(_, _, _, _)
SplitFrom(s, sep, i, cur) ==
    IF i > Len(s) THEN <<cur>>
    ELSE IF s[i] = sep THEN <<cur>> \o SplitFrom(s, sep, i + 1, <<>>)
    ELSE SplitFrom(s, sep, i + 1, Append(cur, s[i]))

Split(s, sep) == SplitFrom(s, sep, 1, <<>>)

\* BufRead::lines: the text between newlines; a final newline ends the last
\* line and starts no further one
RECURSIVE LinesFrom(_, _, _)
LinesFrom(s, i, cur) ==
    IF i > Len(s) THEN (IF cur = <<>> THEN <<>> ELSE <<cur>>)
    ELSE IF s[i] = "\n" THEN <<cur>> \o LinesFrom(s, i + 1, <<>>)
    ELSE LinesFrom(s, i + 1, Append(cur, s[i]))

Lines(s) == LinesFrom(s, 1, <<>>)

----------------------------------------------------------------------------
(* Results: Result<T, TableErr>, and a panic of the process *)

Ok(v) == [tag |-> "Ok", val |-> v]
Err(kind) == [tag |-> "Err", val |-> <<kind>>]
Panic(what) == [tag |-> "Panic", val |-> <<what>>]
IsOk(r) == r.tag = "Ok"

KV(k, v) == [key |-> k, value |-> v]

\* a stream of records that is strictly increasing by key
StrictlySorted(records) ==
    \A i \in 1..(Len(records) - 1) : StrLess(records[i].key, records[i + 1].key)

----------------------------------------------------------------------------
(* The SSTable codec: src/io/table.rs.  fi and fd are the index files and  *)
(* the data files on disk, each a function from base names to contents.    *)

\* a file system with file `file` written (std::fs::write replaces the file)
WriteFile(f, file, content) ==
    [n \in (DOMAIN f) \cup {file} |-> IF n = file THEN content ELSE f[n]]

\* a file system with file `file` removed
RemoveFile(f, file) == [n \in (DOMAIN f) \ {file} |-> f[n]]

\* the loop of flush with a position that never advances: every index line
\* carries offset 0
RECURSIVE FlushLoop_no_advance(_, _, _, _, _)
FlushLoop_no_advance(in_data, i, position, out_index, out_data) ==
    IF i > Len(in_data) THEN [out_index |-> out_index, out_data |-> out_data]
    ELSE LET datum == in_data[i]
             line == datum.key \o <<":">> \o FormatInt(position) \o <<",">>
                         \o FormatInt(Len(datum.value))
         IN  FlushLoop_no_advance(in_data, i + 1, position,
                       Append(out_index, line), Append(out_data, datum.value))

\* the loop of flush: one index line per record, the values collected
RECURSIVE FlushLoop(_, _, _, _, _)
FlushLoop(in_data, i, position, out_index, out_data) ==
    IF i > Len(in_data) THEN [out_index |-> out_index, out_data |-> out_data]
    ELSE LET datum == in_data[i]
             line == datum.key \o <<":">> \o FormatInt(position) \o <<",">>
                         \o FormatInt(Len(datum.value))
         IN  FlushLoop(in_data, i + 1, position + Len(datum.value),
                       Append(out_index, line), Append(out_data, datum.value))

\* what std::fs::write may do in a flush: both writes succeed, the write of
\* the data file fails, or the write of the index file fails
FsErrors == {"none", "data", "index"}

\* flush: writes "{file}.data", then "{file}.index"; a write that fails ends
\* it with Err(IO), the write of the data file before the index is written
flush_fs(fi, fd, file, in_data, fs_error) ==
    LET out == FlushLoop(in_data, 1, 0, <<>>, <<>>)
    IN  IF fs_error = "data" THEN [idx |-> fi, dat |-> fd, res |-> Err("IO")]
        ELSE IF fs_error = "index"
        THEN [idx |-> fi,
              dat |-> WriteFile(fd, file, Join(out.out_data, <<>>)),
              res |-> Err("IO")]
        ELSE [idx |-> WriteFile(fi, file, Join(out.out_index, <<"\n">>)),
              dat |-> WriteFile(fd, file, Join(out.out_data, <<>>)),
              res |-> Ok(<<>>)]

\* flush on a file system whose writes succeed
flush(fi, fd, file, in_data) == flush_fs(fi, fd, file, in_data, "none")

IsDigit(c) == \E i \in 1..10 : Digits[i] = c
DigitVal(c) == (CHOOSE i \in 1..10 : Digits[i] = c) - 1

RECURSIVE StrToNat(_)
StrToNat(s) ==
    IF Len(s) = 0 THEN 0
    ELSE StrToNat(SubSeq(s, 1, Len(s) - 1)) * 10 + DigitVal(s[Len(s)])

\* str::parse::<u32>: a non-empty run of digits that fits u32.  The files of
\* the model are a few bytes long; a text of ten digits or more, which may
\* leave u32, is taken as leaving it
ParseU32(s) ==
    IF Len(s) = 0 \/ \E i \in 1..Len(s) : ~IsDigit(s[i]) THEN Err("BadFile")
    ELSE IF Len(s) > 9 THEN Err("BadFile")
    ELSE Ok(StrToNat(s))

\* DataPosition::from_strings
from_strings(position, length) ==
    LET position_val == ParseU32(position)
        length_val == ParseU32(length)
    IN  IF ~IsOk(position_val) THEN Err("BadFile")
        ELSE IF ~IsOk(length_val) THEN Err("BadFile")
        ELSE Ok(<<position_val.val, length_val.val>>)

\* DataPosition::from_key with the two numbers of the line taken the other
\* way round: the length as the position, the position as the length
from_key_swapped(key) ==
    LET parts == Split(key, ":")
    IN  IF Len(parts) < 2 THEN Err("BadFile")
        ELSE LET entries == Split(parts[2], ",")
             IN  IF Len(entries) < 2 THEN Err("BadFile")
                 ELSE from_strings(entries[2], entries[1])

\* DataPosition::from_key
from_key(key) ==
    LET parts == Split(key, ":")
    IN  IF Len(parts) < 2 THEN Err("BadFile")
        ELSE LET entries == Split(parts[2], ",")
             IN  IF Len(entries) < 2 THEN Err("BadFile")
                 ELSE from_strings(entries[1], entries[2])

\* data_file_position: the position of the first index line that starts
\* with the key
data_file_position(fi, file, key) ==
    IF file \notin DOMAIN fi THEN Err("IO")
    ELSE LET ls == Lines(fi[file])
             hits == {i \in 1..Len(ls) : StartsWith(ls[i], key)}
         IN  IF hits = {} THEN Err("KeyNotFound")
             ELSE from_key(ls[CHOOSE i \in hits : \A j \in hits : i <= j])

\* file_contains
file_contains(fi, file, key) ==
    LET r == data_file_position(fi, file, key)
    IN  IF IsOk(r) THEN Ok(TRUE)
        ELSE IF r = Err("KeyNotFound") THEN Ok(FALSE)
        ELSE r

\* read_at_position: the slice data[start..end] panics when it leaves the
\* file
read_at_position(fd, file, position) ==
    LET start == position[1]
        end == position[1] + position[2]
    IN  IF file \notin DOMAIN fd THEN Err("IO")
        ELSE IF end > Len(fd[file]) THEN Panic("slice")
        ELSE Ok(SubSeq(fd[file], start + 1, end))

\* read
read(fi, fd, file, key) ==
    LET position == data_file_position(fi, file, key)
    IN  IF ~IsOk(position) THEN position
        ELSE read_at_position(fd, file, position.val)

\* one element of the stream of iterate_entries
IterEntry(fd, file, key_and_position) ==
    LET position == from_key(key_and_position)
    IN  IF ~IsOk(position) THEN position
        ELSE LET value == read_at_position(fd, file, position.val)
             IN  IF ~IsOk(value) THEN value
                 ELSE Ok(KV(Split(key_and_position, ":")[1], value.val))

\* iterate_entries: the stream, one Result per index line
iterate_entries(fi, fd, file) ==
    IF file \notin DOMAIN fi THEN Err("IO")
    ELSE LET ls == Lines(fi[file])
         IN  Ok([i \in 1..Len(ls) |-> IterEntry(fd, file, ls[i])])

\* clean: removes the index file, then the data file
clean(fi, fd, file) ==
    IF file \notin DOMAIN fi THEN [idx |-> fi, dat |-> fd, res |-> Err("IO")]
    ELSE IF file \notin DOMAIN fd
    THEN [idx |-> RemoveFile(fi, file), dat |-> fd, res |-> Err("IO")]
    ELSE [idx |-> RemoveFile(fi, file), dat |-> RemoveFile(fd, file),
          res |-> Ok(<<>>)]

----------------------------------------------------------------------------
(* The merge iterator: src/lsm/merge_iter.rs *)

Left(consume) == [side |-> "Left", consume |-> consume]
Right(consume) == [side |-> "Right", consume |-> consume]
None == [side |-> "None", consume |-> FALSE]

\* kv_merge with the tie resolved the other way: the right record is taken
\* and the left one dropped
kv_merge_tie_right(left, right) ==
    IF StrLess(left.key, right.key) THEN Left(FALSE)
    ELSE IF StrLess(right.key, left.key) THEN Right(FALSE)
    ELSE Right(TRUE)

\* kv_merge: by key, a tie takes the left record and drops the right one
kv_merge(left, right) ==
    IF StrLess(left.key, right.key) THEN Left(FALSE)
    ELSE IF StrLess(right.key, left.key) THEN Right(FALSE)
    ELSE Left(TRUE)

\* result_merge with an Err on the left taking the head of the right stream
\* along
result_merge_err_consumes(maybe_left, maybe_right) ==
    IF ~IsOk(maybe_left) THEN Left(TRUE)
    ELSE IF ~IsOk(maybe_right) THEN Right(FALSE)
    ELSE kv_merge(maybe_left.val, maybe_right.val)

\* result_merge with kv_merge, which is also the closure of merge_and_flush
result_merge(maybe_left, maybe_right) ==
    IF ~IsOk(maybe_left) THEN Left(FALSE)
    ELSE IF ~IsOk(maybe_right) THEN Right(FALSE)
    ELSE kv_merge(maybe_left.val, maybe_right.val)

\* the first match of MergeIter::next answering None as soon as one of the
\* streams is exhausted
MergeWhich_end_early(l, r) ==
    IF Len(l) > 0 /\ Len(r) > 0 THEN result_merge(l[1], r[1]) ELSE None

\* MergeIter::next, the first match: the decision on the two remaining
\* streams l and r, with result_merge over kv_merge as the comparator
MergeWhich(l, r) ==
    IF Len(l) > 0 /\ Len(r) > 0 THEN result_merge(l[1], r[1])
    ELSE IF Len(l) > 0 THEN Left(FALSE)
    ELSE IF Len(r) > 0 THEN Right(FALSE)
    ELSE None

\* MergeIter::next, the second match: the element yielded and what is left
\* of both streams
MergeStep(which, l, r) ==
    IF which.side = "Left"
    THEN [item |-> <<l[1]>>, l |-> Tail(l),
          r |-> IF which.consume THEN Tail(r) ELSE r]
    ELSE IF which.side = "Right"
    THEN [item |-> <<r[1]>>, r |-> Tail(r),
          l |-> IF which.consume THEN Tail(l) ELSE l]
    ELSE [item |-> <<>>, l |-> l, r |-> r]

\* MergeIter::next on the two remaining streams l and r
MergeIterNext(l, r) == MergeStep(MergeWhich(l, r), l, r)

\* the stream a MergeIter yields until next returns None
RECURSIVE MergeCollect(_, _)
MergeCollect(l, r) ==
    LET n == MergeIterNext(l, r)
    IN  IF n.item = <<>> THEN <<>> ELSE n.item \o MergeCollect(n.l, n.r)

\* merge_and_flush once the merged stream is collected: it is unwrapped with
\* expect, which panics on an Err element, and flushed; what flush returns is
\* dropped
MergeAndFlushMergedFs(fi, fd, merged, new_file_name, fs_error) ==
    IF \E i \in 1..Len(merged) : ~IsOk(merged[i])
    THEN [idx |-> fi, dat |-> fd, res |-> Panic("expect")]
    ELSE [flush_fs(fi, fd, new_file_name,
                   [i \in 1..Len(merged) |-> merged[i].val], fs_error)
            EXCEPT !.res = Ok(<<>>)]

MergeAndFlushMerged(fi, fd, merged, new_file_name) ==
    MergeAndFlushMergedFs(fi, fd, merged, new_file_name, "none")

\* merge_and_flush once both iterators were asked for
MergeAndFlushItersFs(fi, fd, left_iter, right_iter, new_file_name, fs_error) ==
    IF ~IsOk(left_iter) THEN [idx |-> fi, dat |-> fd, res |-> left_iter]
    ELSE IF ~IsOk(right_iter) THEN [idx |-> fi, dat |-> fd, res |-> right_iter]
    ELSE MergeAndFlushMergedFs(fi, fd,
            MergeCollect(left_iter.val, right_iter.val), new_file_name, fs_error)

MergeAndFlushIters(fi, fd, left_iter, right_iter, new_file_name) ==
    MergeAndFlushItersFs(fi, fd, left_iter, right_iter, new_file_name, "none")

\* merge_and_flush on a file system whose writes fail as fs_error tells
merge_and_flush_fs(fi, fd, left_file_name, right_file_name, new_file_name, fs_error) ==
    MergeAndFlushItersFs(fi, fd, iterate_entries(fi, fd, left_file_name),
                         iterate_entries(fi, fd, right_file_name),
                         new_file_name, fs_error)

\* merge_and_flush on a file system whose writes succeed
merge_and_flush(fi, fd, left_file_name, right_file_name, new_file_name) ==
    merge_and_flush_fs(fi, fd, left_file_name, right_file_name, new_file_name,
                       "none")

----------------------------------------------------------------------------
(* The LSM tree: src/lsm/tree.rs.  lv is the Vec of levels; lv[i + 1] is   *)
(* the level of index i.                                                   *)

\* LsmLevel::table_name: "{id}-{index}" with id "{tree}-{level_index}"
table_name(level_index, index) == <<level_index, index>>

\* LsmTree::add_level
add_level(lv) ==
    Append(lv, [count |-> 0, tables |-> <<>>,
                max_size |-> (Len(lv) + 1) * LEVEL_SCALING_FACTOR])

\* LsmLevel::new_table: the level after minting; the name minted is
\* table_name of its new count
new_table(level) ==
    [level EXCEPT !.count = level.count + 1,
                  !.tables = Append(level.tables, level.count + 1)]

\* LsmLevel::full
full(level) == Len(level.tables) >= level.max_size

\* LsmLevel::oldest: pops the two generations at the head of the queue
oldest(level, level_index) ==
    IF Len(level.tables) < 2 THEN [res |-> Err("TooSmall"), level |-> level]
    ELSE [res |-> Ok(<<table_name(level_index, level.tables[1]),
                       table_name(level_index, level.tables[2])>>),
          level |-> [level EXCEPT !.tables = Tail(Tail(level.tables))]]

\* LsmLevel::table_names: the queue in its own order, head first
table_names(level, level_index) ==
    [i \in 1..Len(level.tables) |-> table_name(level_index, level.tables[i])]

\* LsmTree::add, with what the writes of its flush do
add_fs(lv, fi, fd, in_data, fs_error) ==
    LET lv1 == IF Len(lv) = 0 THEN add_level(lv) ELSE lv
        lv2 == [lv1 EXCEPT ![1] = new_table(lv1[1])]
        new_table_name == table_name(0, lv2[1].count)
        f == flush_fs(fi, fd, new_table_name, in_data, fs_error)
    IN  [levels |-> lv2, idx |-> f.idx, dat |-> f.dat, res |-> f.res]

\* LsmTree::add on a file system whose writes succeed
add(lv, fi, fd, in_data) == add_fs(lv, fi, fd, in_data, "none")

\* one iteration of the loop of LsmTree::compact, from the second clean on.
\* lv are the levels after oldest and new_table; go tells whether the loop
\* goes on
CompactCleaned(lv, c1, candidates) ==
    IF ~IsOk(c1.res)
    THEN [levels |-> lv, idx |-> c1.idx, dat |-> c1.dat, res |-> c1.res,
          go |-> FALSE]
    ELSE [levels |-> lv, go |-> TRUE] @@ clean(c1.idx, c1.dat, candidates[2])

\* one iteration of the loop of LsmTree::compact, from the first clean on
CompactMerged(lv, m, candidates) ==
    IF ~IsOk(m.res)
    THEN [levels |-> lv, idx |-> m.idx, dat |-> m.dat, res |-> m.res,
          go |-> FALSE]
    ELSE CompactCleaned(lv, clean(m.idx, m.dat, candidates[1]), candidates)

\* one iteration of the loop of LsmTree::compact, from new_table on.  lv are
\* the levels after oldest popped the candidates from level 0
CompactCandidates(lv, fi, fd, level_index, candidates, fs_error) ==
    CompactMerged(
        [lv EXCEPT ![level_index + 2] = new_table(lv[level_index + 2])],
        merge_and_flush_fs(fi, fd, candidates[1], candidates[2],
            table_name(level_index + 1, lv[level_index + 2].count + 1),
            fs_error),
        candidates)

\* one iteration of the loop of LsmTree::compact, from oldest on.  lv are the
\* levels after a level was added where one was needed
CompactOldest(lv, fi, fd, level_index, compaction_candidates, fs_error) ==
    IF ~IsOk(compaction_candidates.res)
    THEN [levels |-> lv, idx |-> fi, dat |-> fd, go |-> FALSE,
          res |-> Panic("Couldn't pull oldest from the old level")]
    ELSE CompactCandidates([lv EXCEPT ![1] = compaction_candidates.level],
            fi, fd, level_index, compaction_candidates.res.val, fs_error)

\* one iteration of the loop of LsmTree::compact once level 0 is full
CompactLevels(lv, fi, fd, level_index, fs_error) ==
    CompactOldest(lv, fi, fd, level_index, oldest(lv[1], 0), fs_error)

\* one iteration of the loop of LsmTree::compact
CompactStep(st, level_index, fs_error) ==
    IF ~full(st.levels[1]) THEN [st EXCEPT !.go = FALSE]
    ELSE CompactLevels(
            IF level_index + 1 >= Len(st.levels) THEN add_level(st.levels)
            ELSE st.levels,
            st.idx, st.dat, level_index, fs_error)

\* the loop of LsmTree::compact from level_index on; n is self.levels.len()
\* when the loop was entered
RECURSIVE CompactLoop(_, _, _, _)
CompactLoop(st, level_index, n, fs_error) ==
    IF level_index >= n \/ ~st.go THEN st
    ELSE CompactLoop(CompactStep(st, level_index, fs_error), level_index + 1, n,
                     fs_error)

\* LsmTree::compact: the levels and the files it leaves, and what it returns,
\* on a file system whose writes fail as fs_error tells during the call
compact_fs(lv, fi, fd, fs_error) ==
    CompactLoop([levels |-> lv, idx |-> fi, dat |-> fd, res |-> Ok(<<>>),
                 go |-> TRUE], 0, Len(lv), fs_error)

\* LsmTree::compact on a file system whose writes succeed
compact(lv, fi, fd) == compact_fs(lv, fi, fd, "none")

\* LsmTree::load once the names of the index files are parsed: the levels
\* rebuilt from the pairs <<level, index>>
LoadLevels(files) ==
    LET keys == {file[1] : file \in files}
        min(level) == CHOOSE g \in {file[2] : file \in {x \in files : x[1] = level}} :
                        \A file \in files : file[1] = level => g <= file[2]
        max(level) == CHOOSE g \in {file[2] : file \in {x \in files : x[1] = level}} :
                        \A file \in files : file[1] = level => g >= file[2]
    IN  IF \E level_index \in 0..(Cardinality(keys) - 1) : level_index \notin keys
        THEN Panic("levels[&level_index]")
        ELSE Ok([i \in 1..Cardinality(keys) |->
                    [count |-> max(i - 1) - min(i - 1) + 1,
                     tables |-> [j \in 1..(max(i - 1) - min(i - 1) + 1) |->
                                    min(i - 1) + j - 1],
                     max_size |-> i * LEVEL_SCALING_FACTOR]])

\* LsmTree::load of the model's one tree: the names of its index files are
\* the pairs of the domain of fi
load(fi) == LoadLevels(DOMAIN fi)

\* str::contains
Contains(s, sub) ==
    \E i \in 0..(Len(s) - Len(sub)) : SubSeq(s, i + 1, i + Len(sub)) = sub

\* str::ends_with
EndsWith(s, suffix) ==
    /\ Len(suffix) <= Len(s)
    /\ SubSeq(s, Len(s) - Len(suffix) + 1, Len(s)) = suffix

\* str::match_indices of a one-character pattern, as 1-based positions
MatchIndices(s, c) == {i \in 1..Len(s) : s[i] = c}

IndexSuffix == <<".", "i", "n", "d", "e", "x">>

\* LsmTree::list_files: the paths of the directory the table name db_name points to
\* that contain name_part.  dir is the set of file names of that directory;
\* with a '/' in the table name, name_part is the text between the last '/'
\* and the last character of the table name
list_files(db_name, dir) ==
    LET slash_indices == MatchIndices(db_name, "/")
        last_slash == SetMax(slash_indices)
        path_part == IF slash_indices # {}
                     THEN SubSeq(db_name, 1, last_slash - 1) \o <<"/">>
                     ELSE <<".", "/">>
        name_part == IF slash_indices # {}
                     THEN SubSeq(db_name, last_slash + 1, Len(db_name) - 1)
                     ELSE db_name
    IN  {path \in {path_part \o file : file \in dir} : Contains(path, name_part)}

\* LsmTree::parse_file_name
parse_file_name(file_name) ==
    LET dash_indices == MatchIndices(file_name, "-")
        first == SetMin(dash_indices)
        second == SetMax(dash_indices)
        level_part == ParseU32(SubSeq(file_name, first + 1, second - 1))
        index_part == ParseU32(SubSeq(file_name, second + 1, Len(file_name)))
    IN  IF Cardinality(dash_indices) # 2 THEN Err("BadFile")
        ELSE IF ~IsOk(level_part) \/ ~IsOk(index_part) THEN Err("BadFile")
        ELSE Ok(<<level_part.val, index_part.val>>)

\* LsmTree::load(table_name) on a directory: every listed path that ends
\* with ".index" is parsed, the first that does not parse ends load with
\* BadFile (whichever comes first, the error is the same)
LoadByName(db_name, dir) ==
    LET files == {file \in list_files(db_name, dir) : EndsWith(file, IndexSuffix)}
        parsed == {parse_file_name(SubSeq(file, 1, Len(file) - 6)) : file \in files}
    IN  IF \E p \in parsed : ~IsOk(p) THEN Err("BadFile")
        ELSE LoadLevels({p.val : p \in parsed})

\* impl Scan for LsmLevel: the first table of table_names that contains the
\* key answers; an error of file_contains ends the scan
RECURSIVE LevelReadFrom(_, _, _, _, _)
LevelReadFrom(names, i, fi, fd, key) ==
    IF i > Len(names) THEN Err("KeyNotFound")
    ELSE LET c == file_contains(fi, names[i], key)
         IN  IF ~IsOk(c) THEN c
             ELSE IF c.val THEN read(fi, fd, names[i], key)
             ELSE LevelReadFrom(names, i + 1, fi, fd, key)

LevelRead(level, level_index, fi, fd, key) ==
    LevelReadFrom(table_names(level, level_index), 1, fi, fd, key)

\* impl Scan for LsmTree: the first level that answers Ok; an Err of a level
\* is printed and the scan goes on
RECURSIVE TreeReadFrom(_, _, _, _, _)
TreeReadFrom(lv, i, fi, fd, key) ==
    IF i > Len(lv) THEN Err("KeyNotFound")
    ELSE LET r == LevelRead(lv[i], i - 1, fi, fd, key)
         IN  IF r.tag = "Err" THEN TreeReadFrom(lv, i + 1, fi, fd, key)
             ELSE r

TreeRead(lv, fi, fd, key) == TreeReadFrom(lv, 1, fi, fd, key)

----------------------------------------------------------------------------
(* The Client: src/db/client.rs.  Vec indices are 0-based in the source;   *)
(* mt[i + 1] is the element of index i.                                    *)

\* the loop of find_index; low, high, mid are usize
RECURSIVE BinSearchLoop(_, _, _, _, _)
BinSearchLoop(mt, key_str, low, high, mid) ==
    IF low < high /\ mt[mid + 1].key # key_str
    THEN LET low1 == IF StrLess(mt[mid + 1].key, key_str) THEN mid + 1 ELSE low
             high1 == IF StrLess(mt[mid + 1].key, key_str) THEN high
                      ELSE IF mid > 0 THEN mid - 1 ELSE mid
         IN  BinSearchLoop(mt, key_str, low1, high1, (high1 + low1) \div 2)
    ELSE mid

\* Client::find_index
find_index(mt, key) ==
    IF Len(mt) < 1 THEN [tag |-> "EMPTY", val |-> 0]
    ELSE LET low == 0
             high == Len(mt) - 1
         IN  IF StrLess(key, mt[low + 1].key) THEN [tag |-> "SMALLER", val |-> 0]
             ELSE IF StrLess(mt[high + 1].key, key)
             THEN [tag |-> "LARGER", val |-> 0]
             ELSE LET mid == BinSearchLoop(mt, key, low, high, (high + low) \div 2)
                  IN  IF mt[mid + 1].key = key THEN [tag |-> "Ok", val |-> mid]
                      ELSE [tag |-> "MISSING", val |-> mid]

\* Vec::insert(index, element)
VecInsert(v, index, elem) ==
    SubSeq(v, 1, index) \o <<elem>> \o SubSeq(v, index + 1, Len(v))

\* the memtable after the match of Client::put
PutMemTable(mt, key, value) ==
    LET new_elem == KV(key, value)
        found == find_index(mt, key)
    IN  CASE found.tag = "Ok" -> [mt EXCEPT ![found.val + 1] = new_elem]
          [] found.tag = "SMALLER" -> VecInsert(mt, 0, new_elem)
          [] found.tag \in {"LARGER", "EMPTY"} -> Append(mt, new_elem)
          [] found.tag = "MISSING" -> VecInsert(mt, found.val + 1, new_elem)

\* Client::get
ClientGet(mt, lv, fi, fd, key) ==
    LET found == find_index(mt, key)
    IN  IF found.tag = "Ok" THEN Ok(mt[found.val + 1].value)
        ELSE LET val == TreeRead(lv, fi, fd, key)
             IN  IF IsOk(val) THEN val
                 ELSE IF val.tag = "Panic" THEN val
                 ELSE Err("KeyNotFound")

----------------------------------------------------------------------------
(* Inputs *)

Keys == {<<"a">>, <<"a", "b">>, <<"b">>}
Values == {<<"x">>, <<"y", "y">>}
TreeKeys == {<<"a">>, <<"a", "b">>}
CodecValues == {<<>>, <<"x">>, <<"y", "y">>}

\* the record streams of at most n records over keys ks and values vs that
\* are strictly increasing by key
SortedStreams(ks, vs, n) ==
    {s \in UNION {[1..m -> [key : ks, value : vs]] : m \in 0..n} :
        \A i \in 1..Len(s) : \A j \in 1..Len(s) :
            i < j => StrLess(s[i].key, s[j].key)}

\* the value of the n-th write to a tree: no two writes carry the same value,
\* so that a stale value is told from the latest one; the lengths differ
TreeValue(n) ==
    IF n % 2 = 1 THEN <<Digits[n + 1]>> ELSE <<Digits[n + 1], Digits[n + 1]>>

\* the sorted, non-empty batches of the n-th LsmTree::add
Batches(n) ==
    SortedStreams(TreeKeys, {TreeValue(n)}, Cardinality(TreeKeys)) \ {<<>>}

EmptyFS == [n \in {} |-> <<>>]
NoOp == [name |-> "new", res |-> Ok(<<>>)]
NoHist == [writes |-> 0, loaded |-> FALSE, rewritten |-> {}]
NoMerge == [phase |-> "none", left |-> <<>>, right |-> <<>>]

Running == op.res.tag # "Panic"

\* the history of last writes after the records of a batch were written
RECURSIVE WrittenAfter(_, _, _)
WrittenAfter(w, in_data, i) ==
    IF i > Len(in_data) THEN w
    ELSE WrittenAfter(WriteFile(w, in_data[i].key, in_data[i].value),
                      in_data, i + 1)

----------------------------------------------------------------------------
(* The Client: a fresh Client and its puts *)

Init ==
    /\ mem_table = <<>>
    /\ max_size \in 2..MaxM
    /\ levels = <<>>
    /\ idx = EmptyFS
    /\ dat = EmptyFS
    /\ op = NoOp
    /\ written = EmptyFS
    /\ hist = NoHist
    /\ mrg = NoMerge

\* Client::put with the flush one record late: the memtable is handed to the
\* tree only once it holds more than max_size records
Put_flush_above(key, value) ==
    /\ Running
    /\ hist.writes < MaxPuts
    /\ LET mt == PutMemTable(mem_table, key, value)
           a == add(levels, idx, dat, mt)
       IN  IF Len(mt) > max_size
           THEN /\ mem_table' = <<>>
                /\ levels' = a.levels
                /\ idx' = a.idx
                /\ dat' = a.dat
           ELSE /\ mem_table' = mt
                /\ UNCHANGED <<levels, idx, dat>>
    /\ op' = [name |-> "put", res |-> Ok(<<>>)]
    /\ written' = WriteFile(written, key, value)
    /\ hist' = [hist EXCEPT !.writes = hist.writes + 1,
                            !.rewritten =
                                IF key \in DOMAIN written /\ written[key] # value
                                THEN hist.rewritten \cup {key}
                                ELSE hist.rewritten]
    /\ UNCHANGED <<max_size, mrg>>

\* Client::put(key, value), with what the writes of the flush it may trigger
\* do: what add returns is dropped, put returns Ok
PutFs(key, value, fs_error) ==
    /\ Running
    /\ hist.writes < MaxPuts
    /\ LET mt == PutMemTable(mem_table, key, value)
           a == add_fs(levels, idx, dat, mt, fs_error)
       IN  IF Len(mt) >= max_size
           THEN /\ mem_table' = <<>>
                /\ levels' = a.levels
                /\ idx' = a.idx
                /\ dat' = a.dat
           ELSE /\ mem_table' = mt
                /\ UNCHANGED <<levels, idx, dat>>
    /\ op' = [name |-> "put", res |-> Ok(<<>>)]
    /\ written' = WriteFile(written, key, value)
    /\ hist' = [hist EXCEPT !.writes = hist.writes + 1,
                            !.rewritten =
                                IF key \in DOMAIN written /\ written[key] # value
                                THEN hist.rewritten \cup {key}
                                ELSE hist.rewritten]
    /\ UNCHANGED <<max_size, mrg>>

\* Client::put(key, value) on a file system whose writes succeed
Put(key, value) == PutFs(key, value, "none")

Next == \E key \in Keys, value \in Values : Put(key, value)

Spec == Init /\ [][Next]_vars

----------------------------------------------------------------------------
(* The tree on its own: adds of sorted batches, compactions, loads *)

\* LsmTree::add(in_data) on a file system whose writes fail as fs_error tells
AddFs(in_data, fs_error) ==
    /\ Running
    /\ hist.writes < MaxAdds
    /\ LET a == add_fs(levels, idx, dat, in_data, fs_error)
       IN  /\ levels' = a.levels
           /\ idx' = a.idx
           /\ dat' = a.dat
           /\ op' = [name |-> "add", res |-> a.res]
    /\ written' = WrittenAfter(written, in_data, 1)
    /\ hist' = [hist EXCEPT !.writes = hist.writes + 1]
    /\ UNCHANGED <<mem_table, max_size, mrg>>

\* LsmTree::add(in_data)
Add(in_data) == AddFs(in_data, "none")

\* LsmTree::compact() on a file system whose writes fail as fs_error tells
CompactFs(fs_error) ==
    /\ Running
    /\ LET c == compact_fs(levels, idx, dat, fs_error)
       IN  /\ levels' = c.levels
           /\ idx' = c.idx
           /\ dat' = c.dat
           /\ op' = [name |-> "compact", res |-> c.res]
    /\ UNCHANGED <<mem_table, max_size, written, hist, mrg>>

\* LsmTree::compact()
Compact == CompactFs("none")

\* LsmTree::load(name): the process goes on with the tree that load returns
Load ==
    /\ Running
    /\ LET l == load(idx)
       IN  /\ levels' = IF IsOk(l) THEN l.val ELSE levels
           /\ op' = [name |-> "load",
                     res |-> IF IsOk(l) THEN Ok(<<>>) ELSE l]
    /\ hist' = [hist EXCEPT !.loaded = TRUE]
    /\ UNCHANGED <<mem_table, max_size, idx, dat, written, mrg>>

TreeInit ==
    /\ mem_table = <<>>
    /\ max_size = MaxM
    /\ levels = <<>>
    /\ idx = EmptyFS
    /\ dat = EmptyFS
    /\ op = NoOp
    /\ written = EmptyFS
    /\ hist = NoHist
    /\ mrg = NoMerge

TreeNext ==
    \/ \E in_data \in Batches(hist.writes + 1) : Add(in_data)
    \/ Compact
    \/ Load

TreeSpec == TreeInit /\ [][TreeNext]_vars

\* the tree on a file system whose writes may fail during an add or a
\* compaction
TreeFaultNext ==
    \/ \E in_data \in Batches(hist.writes + 1), fs_error \in FsErrors :
        hist.writes < MaxFaultAdds /\ AddFs(in_data, fs_error)
    \/ \E fs_error \in FsErrors : CompactFs(fs_error)

TreeFaultSpec == TreeInit /\ [][TreeFaultNext]_vars

\* a Client on a file system whose writes may fail
FaultNext ==
    \E key \in Keys, value \in Values, fs_error \in FsErrors :
        PutFs(key, value, fs_error)

FaultSpec == Init /\ [][FaultNext]_vars

\* a Client whose tree is also compacted between puts
FlushNext == Next \/ Compact

FlushSpec == Init /\ [][FlushNext]_vars

----------------------------------------------------------------------------
(* Properties of the Client, under Spec (C19 and C20 under FaultSpec) *)

\* the records of a table, as iterate_entries yields them
TableRecords(fi, fd, file) ==
    LET it == iterate_entries(fi, fd, file)
    IN  IF IsOk(it) THEN [i \in 1..Len(it.val) |-> it.val[i].val] ELSE <<>>

\* the keys of a stream of records
KeysOf(records) == {records[i].key : i \in 1..Len(records)}

\* the values a stream of records holds for a key
ValuesOf(records, key) ==
    {records[i].value : i \in {j \in 1..Len(records) : records[j].key = key}}

\* what LsmTree::read(key) returns in the current state
Read(key) == TreeRead(levels, idx, dat, key)

\* what Client::get(key) returns in the current state
Get(key) == ClientGet(mem_table, levels, idx, dat, key)

\* C1: as long as no put has flushed the memtable (the tree has no level
\* yet), get(k) returns the value of the last put of k, for every key k that
\* was put.
C1_RoundTripMemtable ==
    levels = <<>> => \A k \in DOMAIN written : Get(k) = Ok(written[k])

\* C2: once the puts have reached the flush threshold and the memtable was
\* flushed to level 0, once or more, get(k) still returns the value of the
\* last put of k, for every key k that was put.
C2_RoundTripFlush ==
    levels # <<>> => \A k \in DOMAIN written : Get(k) = Ok(written[k])

\* C13: get(k) of a key that was never put returns not_found, after any
\* sequence of puts (and the flushes they trigger) of other keys.
C13_AbsentKeyNotFound ==
    \A k \in Keys \ DOMAIN written : Get(k) = Err("KeyNotFound")

\* C15: at every reachable state the memtable is strictly increasing by key:
\* its entries are in ascending key order and no two share a key.
C15_MemtableSorted == StrictlySorted(mem_table)

\* the records of a stream, as a set
RecordsOf(records) == {records[i] : i \in 1..Len(records)}

\* C16: after every put the memtable holds fewer than M records; a put that
\* flushes leaves the memtable empty and has handed the whole memtable to the
\* tree as one batch: the table it wrote holds M records, which are the
\* entries the memtable held and the record put.
C16_MemtableBelowThreshold ==
    [][op'.name = "put" =>
        /\ Len(mem_table') < max_size
        /\ levels' # levels =>
            LET batch == TableRecords(idx', dat', table_name(0, levels'[1].count))
            IN  /\ mem_table' = <<>>
                /\ Len(batch) = max_size
                /\ KeysOf(mem_table) \subseteq KeysOf(batch)
                /\ \A r \in RecordsOf(batch) :
                        \/ r \in RecordsOf(mem_table)
                        \/ (r.key \in DOMAIN written' /\ written'[r.key] = r.value)]_vars

\* C16's case: a Client with the largest threshold has flushed its memtable
\* and holds records again
C16_Witness ==
    /\ op.name = "put"
    /\ max_size = MaxM
    /\ Len(levels) = 1
    /\ Len(TableRecords(idx, dat, table_name(0, 1))) = MaxM
    /\ Len(mem_table) = 1

\* C17: after every put, every level L of the Client's tree holds at most
\* (L + 1) x S tables.
C17_LevelsWithinCapacity ==
    \A i \in 1..Len(levels) :
        Len(levels[i].tables) <= i * LEVEL_SCALING_FACTOR

\* a put step whose flush failed: a table was minted at level 0 and its index
\* file is not on disk
FlushFailed ==
    /\ op'.name = "put"
    /\ levels' # levels
    /\ table_name(0, levels'[1].count) \notin DOMAIN idx'

\* C19: put returns io_error when the flush it triggered failed with a
\* filesystem error, and ok otherwise.
C19_PutReportsFlushError ==
    [][op'.name = "put" =>
        op'.res = IF FlushFailed THEN Err("IO") ELSE Ok(<<>>)]_vars

\* the tables a point lookup probes, in the order of the scan: level by
\* level, each level in the order of table_names
RECURSIVE ProbeOrder(_, _)
ProbeOrder(lv, i) ==
    IF i > Len(lv) THEN <<>>
    ELSE table_names(lv[i], i - 1) \o ProbeOrder(lv, i + 1)

\* the first table of the scan for which file_contains does not answer
\* Ok(false) answers with an io error
ProbeFailsWithIo(key) ==
    LET probes == ProbeOrder(levels, 1)
    IN  \E i \in 1..Len(probes) :
            /\ file_contains(idx, probes[i], key) = Err("IO")
            /\ \A j \in 1..(i - 1) : file_contains(idx, probes[j], key) = Ok(FALSE)

\* C20: when file_contains fails with an io error on a table the lookup
\* probes, Tree.read returns the io error, and so does Client.get when the
\* memtable does not hold the key.
C20_IoErrorPropagates ==
    \A k \in Keys :
        ProbeFailsWithIo(k) =>
            /\ Read(k) = Err("IO")
            /\ find_index(mem_table, k).tag # "Ok" => Get(k) = Err("IO")

----------------------------------------------------------------------------
(* Properties of the tree, under TreeSpec (C5 under FlushSpec) *)

\* the base names of the tables that are live in some level
Live(lv) ==
    UNION {{table_name(i - 1, lv[i].tables[j]) : j \in 1..Len(lv[i].tables)} :
            i \in 1..Len(lv)}

\* the generations of the index files of a level on disk
GensOnDisk(fi, level_index) ==
    {file[2] : file \in {x \in DOMAIN fi : x[1] = level_index}}


\* a compaction of a tree that only saw adds and compactions, started with
\* level 0 full
CompactsFullLevel0 ==
    /\ op'.name = "compact"
    /\ Running
    /\ ~hist.loaded
    /\ levels # <<>>
    /\ full(levels[1])

\* C3: when a compaction is triggered with level 0 full, it returns, and every
\* key that Tree.read answered before it is answered after it, with the same
\* value, which is the value of the latest write of the key.
C3_CompactKeepsReads ==
    [][CompactsFullLevel0 =>
        \A k \in TreeKeys :
            IsOk(Read(k)) =>
                /\ op'.res.tag = "Ok"
                /\ TreeRead(levels', idx', dat', k) = Read(k)
                /\ TreeRead(levels', idx', dat', k) = Ok(written[k])]_vars

\* C18: in every state reached by adds and compactions, compact runs to
\* completion or returns an error: what it returns is ok or io_error, never
\* an abort of the process.
C18_CompactNeverAborts ==
    (op.name = "compact" /\ ~hist.loaded) =>
        op.res \in {Ok(<<>>), Err("IO")}

\* the generations of a level's queue whose table holds a record of key k
Holders(i, k) ==
    {g \in {levels[i].tables[j] : j \in 1..Len(levels[i].tables)} :
        k \in KeysOf(TableRecords(idx, dat, table_name(i - 1, g)))}

\* C21: when two or more live tables of one level hold key k, the read of that
\* level returns k's value from the table of the largest generation.
C21_NewestTableFirst ==
    ~hist.loaded =>
        \A i \in 1..Len(levels) : \A k \in TreeKeys :
            Cardinality(Holders(i, k)) >= 2 =>
                \E v \in ValuesOf(TableRecords(idx, dat,
                            table_name(i - 1, SetMax(Holders(i, k)))), k) :
                    LevelRead(levels[i], i - 1, idx, dat, k) = Ok(v)

\* C23: a compaction that returns puts a table into the level after level L,
\* L >= 1, only by taking the two tables at the head of level L's queue.
C23_StepTakesFromItsLevel ==
    [][(op'.name = "compact" /\ op'.res.tag = "Ok" /\ ~hist.loaded) =>
        \A i \in 2..(Len(levels') - 1) :
            levels'[i + 1].count >
                (IF i + 1 <= Len(levels) THEN levels[i + 1].count ELSE 0) =>
                    /\ Len(levels[i].tables) >= 2
                    /\ \A j \in 1..Len(levels'[i].tables) :
                        levels'[i].tables[j] \notin
                            {levels[i].tables[1], levels[i].tables[2]}]_vars

\* a compaction step whose write of a destination table failed: a table was
\* minted in a level above level 0 and its index file is not on disk
DestinationWriteFailed ==
    /\ op'.name = "compact"
    /\ \E i \in 2..Len(levels') :
        /\ levels'[i].count > (IF i <= Len(levels) THEN levels[i].count ELSE 0)
        /\ table_name(i - 1, levels'[i].count) \notin DOMAIN idx'

\* C24: a compaction whose write of the destination table failed returns
\* io_error and deletes no file that was on disk before the call.
C24_FailedWriteKeepsInputs ==
    [][DestinationWriteFailed =>
        /\ op'.res = Err("IO")
        /\ \A file \in DOMAIN idx : file \in DOMAIN idx'
        /\ \A file \in DOMAIN dat : file \in DOMAIN dat']_vars

\* the number of tables that the step to state' minted in the level of index
\* i - 1
Gained(i) ==
    levels'[i].count - (IF i <= Len(levels) THEN levels[i].count ELSE 0)

\* the queue of the level of index i - 1 before the step, followed by the
\* table that the step minted in it
QueueWithGained(i) ==
    (IF i <= Len(levels) THEN levels[i].tables ELSE <<>>) \o
        (IF Gained(i) > 0 THEN <<levels'[i].count>> ELSE <<>>)

\* the tables that a compaction step of the level of index i - 1 takes: the
\* two at the head of its queue
StepInputs(i) ==
    {table_name(i - 1, QueueWithGained(i)[j]) : j \in 1..2}

\* C25: a compaction that returns and mints a table in the level after level
\* L found at least two tables in level L, removed the two of the lowest
\* generations from L's queue and their files from disk, minted exactly one
\* table in the next level, whose keys are the keys of the two inputs, and
\* left every other table as it was.
C25_CompactStepFrame ==
    [][(op'.name = "compact" /\ op'.res.tag = "Ok" /\ ~hist.loaded) =>
        /\ \A i \in 1..(Len(levels') - 1) : Gained(i + 1) > 0 =>
            /\ Gained(i + 1) = 1
            /\ Len(QueueWithGained(i)) >= 2
            /\ levels'[i].tables =
                SubSeq(QueueWithGained(i), 3, Len(QueueWithGained(i)))
            /\ \A file \in StepInputs(i) :
                file \notin DOMAIN idx' /\ file \notin DOMAIN dat'
            /\ (StepInputs(i) \subseteq DOMAIN idx /\
                table_name(i, levels'[i + 1].count) \in DOMAIN idx') =>
                    KeysOf(TableRecords(idx', dat',
                                table_name(i, levels'[i + 1].count))) =
                        UNION {KeysOf(TableRecords(idx, dat, file)) :
                                file \in StepInputs(i)}
        /\ \A file \in DOMAIN idx :
            \/ \E i \in 1..(Len(levels') - 1) :
                Gained(i + 1) > 0 /\ file \in StepInputs(i)
            \/ /\ file \in DOMAIN idx' /\ idx'[file] = idx[file]
               /\ file \in DOMAIN dat' /\ dat'[file] = dat[file]]_vars

\* level 0's generation counter in the current state
Level0Count == IF levels = <<>> THEN 0 ELSE levels[1].count

\* C26: an add of a batch mints one table in level 0, of generation level 0's
\* counter plus one, at the tail of level 0's queue, whose files did not exist
\* and now hold exactly the batch; no other level and no file that existed is
\* changed, and no table leaves a queue.
C26_AddFrame ==
    [][\A in_data \in Batches(hist.writes + 1) : Add(in_data) =>
        /\ op'.res = Ok(<<>>)
        /\ Len(levels') = IF levels = <<>> THEN 1 ELSE Len(levels)
        /\ levels'[1].count = Level0Count + 1
        /\ levels'[1].tables =
            (IF levels = <<>> THEN <<>> ELSE levels[1].tables) \o
                <<Level0Count + 1>>
        /\ \A i \in 2..Len(levels) : levels'[i] = levels[i]
        /\ table_name(0, Level0Count + 1) \notin DOMAIN idx \cup DOMAIN dat
        /\ DOMAIN idx' = DOMAIN idx \cup {table_name(0, Level0Count + 1)}
        /\ DOMAIN dat' = DOMAIN dat \cup {table_name(0, Level0Count + 1)}
        /\ TableRecords(idx', dat', table_name(0, Level0Count + 1)) = in_data
        /\ \A file \in DOMAIN idx : idx'[file] = idx[file]
        /\ \A file \in DOMAIN dat : dat'[file] = dat[file]]_vars

\* C31: in every state of the tree, oldest on a level whose queue has fewer
\* than two generations returns too_small and leaves the level as it is; on
\* a queue of two or more it returns the names of the two generations at the
\* head, in queue order, none of them above a generation that stays in the
\* queue, and leaves the rest of the queue and the counter as they are.
C31_OldestPopsTwoLowest ==
    \A i \in 1..Len(levels) :
        LET level == levels[i]
            o == oldest(level, i - 1)
        IN  IF Len(level.tables) < 2
            THEN o.res = Err("TooSmall") /\ o.level = level
            ELSE /\ o.res = Ok(<<table_name(i - 1, level.tables[1]),
                                 table_name(i - 1, level.tables[2])>>)
                 /\ o.level.count = level.count
                 /\ o.level.max_size = level.max_size
                 /\ o.level.tables = SubSeq(level.tables, 3, Len(level.tables))
                 /\ \A j \in 3..Len(level.tables) :
                        /\ level.tables[1] <= level.tables[j]
                        /\ level.tables[2] <= level.tables[j]

\* the generations of the data files of a level on disk
DataGensOnDisk(fd, level_index) ==
    {file[2] : file \in {x \in DOMAIN fd : x[1] = level_index}}

\* C32: while the process runs, after any adds and compactions, with or
\* without failed writes, the generations in the queue of every level are
\* exactly those whose index file and data file are on disk, and no file of
\* a level that the tree does not have is on disk.
C32_QueuesMatchDisk ==
    Running =>
        /\ \A i \in 1..Len(levels) :
            LET queued == {levels[i].tables[j] : j \in 1..Len(levels[i].tables)}
            IN  /\ queued = GensOnDisk(idx, i - 1)
                /\ queued = DataGensOnDisk(dat, i - 1)
        /\ \A file \in DOMAIN idx \cup DOMAIN dat : file[1] < Len(levels)

\* the number of the add that wrote a value: the n-th add writes TreeValue(n)
WriteNumber(value) == DigitVal(value[1])

\* the numbers of the adds whose value for key k is held by a table in the
\* queue of the level of index i - 1
WritesHeld(i, k) ==
    UNION {{WriteNumber(v) :
                v \in ValuesOf(TableRecords(idx, dat, table_name(i - 1, g)), k)} :
            g \in {levels[i].tables[j] : j \in 1..Len(levels[i].tables)}}

\* C33: in every state reached by adds and compactions, when tables of two
\* levels hold key k, every write of k held in the level of the lower index
\* is later than every write of k held in the other level.
C33_LevelsOrderedByAge ==
    (Running /\ ~hist.loaded) =>
        \A k \in TreeKeys :
            \A i \in 1..Len(levels) : \A j \in (i + 1)..Len(levels) :
                \A wi \in WritesHeld(i, k) : \A wj \in WritesHeld(j, k) :
                    wi > wj

\* C4: when the first step of a compaction merges the two tables at the head
\* of level 0 and both hold key k, the table written to level 1 holds for k
\* the value of the newer of the two, the one of the larger generation.
C4_NewerWinsInMerge ==
    [][(CompactsFullLevel0 /\ op'.res.tag = "Ok" /\ Len(levels[1].tables) >= 2) =>
        LET g1 == levels[1].tables[1]
            g2 == levels[1].tables[2]
            older == TableRecords(idx, dat, table_name(0, SetMin({g1, g2})))
            newer == TableRecords(idx, dat, table_name(0, SetMax({g1, g2})))
            dest == TableRecords(idx', dat',
                        table_name(1, IF Len(levels) >= 2
                                      THEN levels[2].count + 1 ELSE 1))
        IN  \A k \in KeysOf(older) \cap KeysOf(newer) :
                ValuesOf(dest, k) = ValuesOf(newer, k)]_vars

\* C5: after put(k, v1); put(k, v2), the flush of the memtable to level 0 and
\* a compact, the compact has returned and get(k) returns v2.  The step is a
\* compact right after the put that flushed the memtable for the first time;
\* k is a key that was put again with another value.
C5_LatestWinsAfterCompact ==
    [][(/\ op'.name = "compact"
        /\ op.name = "put"
        /\ mem_table = <<>>
        /\ Len(levels) = 1
        /\ levels[1].count = 1) =>
        \A k \in hist.rewritten :
            /\ op'.res.tag = "Ok"
            /\ ClientGet(mem_table', levels', idx', dat', k) = Ok(written[k])]_vars

\* C6: load after adds and compactions returns a tree, and that tree reads,
\* for every key the original tree read, the same value.
C6_LoadReadsTheSame ==
    [][(op'.name = "load" /\ Running /\ ~hist.loaded) =>
        \A k \in TreeKeys :
            IsOk(Read(k)) =>
                /\ op'.res.tag = "Ok"
                /\ TreeRead(levels', idx', dat', k) = Read(k)]_vars

\* a queue of generations that is a strictly increasing run of consecutive
\* integers
Contiguous(tables) ==
    \A i \in 1..(Len(tables) - 1) : tables[i + 1] = tables[i] + 1

\* C7: in every level, after any operation, the queue of generations is a
\* strictly increasing run of consecutive integers.
C7_QueuesContiguous ==
    \A i \in 1..Len(levels) : Contiguous(levels[i].tables)

\* C8: the tree that load returns has, for each level with tables on disk,
\* the queue min_G..max_G of the generations on disk and the generation
\* counter max_G.
C8_LoadCounterIsMaxGen ==
    (op.name = "load" /\ op.res.tag = "Ok") =>
        /\ \A file \in DOMAIN idx : file[1] < Len(levels)
        /\ \A i \in 1..Len(levels) :
            LET gens == GensOnDisk(idx, i - 1)
            IN  /\ gens # {}
                /\ levels[i].tables =
                    [j \in 1..(SetMax(gens) - SetMin(gens) + 1) |->
                        SetMin(gens) + j - 1]
                /\ levels[i].count = SetMax(gens)

\* C9: no add and no compact changes the index or data file of a table that
\* is live in some level, and every generation a level mints differs from
\* the generations live in that level.
C9_TablesImmutable ==
    [][(op'.name \in {"add", "compact"} /\ Running) =>
        /\ \A file \in Live(levels) :
            /\ (file \in DOMAIN idx /\ file \in DOMAIN idx') =>
                    idx'[file] = idx[file]
            /\ (file \in DOMAIN dat /\ file \in DOMAIN dat') =>
                    dat'[file] = dat[file]
        /\ \A i \in 1..Len(levels) :
            \A g \in (levels[i].count + 1)..levels'[i].count :
                \A j \in 1..Len(levels[i].tables) : levels[i].tables[j] # g]_vars

----------------------------------------------------------------------------
(* The codec on its own: two sorted streams are flushed to two tables, and *)
(* the two tables are merged into a third, as in the test merges of        *)
(* src/io/table.rs                                                         *)

LeftTable == table_name(0, 1)
RightTable == table_name(0, 2)
MergedTable == table_name(1, 1)

CodecStreams == SortedStreams(Keys, CodecValues, MaxStream)

CodecInit ==
    /\ mem_table = <<>>
    /\ max_size = MaxM
    /\ levels = <<>>
    /\ idx = EmptyFS
    /\ dat = EmptyFS
    /\ op = NoOp
    /\ written = EmptyFS
    /\ hist = NoHist
    /\ mrg \in [phase : {"new"}, left : CodecStreams, right : CodecStreams]

\* flush(left table, left stream); flush(right table, right stream)
FlushInputs ==
    /\ mrg.phase = "new"
    /\ LET l == flush(idx, dat, LeftTable, mrg.left)
           r == flush(l.idx, l.dat, RightTable, mrg.right)
       IN  /\ idx' = r.idx
           /\ dat' = r.dat
           /\ op' = [name |-> "flush", res |-> r.res]
    /\ mrg' = [mrg EXCEPT !.phase = "flushed"]
    /\ UNCHANGED <<mem_table, max_size, levels, written, hist>>

\* merge_and_flush(left table, right table, merged table)
MergeAndFlush ==
    /\ mrg.phase = "flushed"
    /\ LET m == merge_and_flush(idx, dat, LeftTable, RightTable, MergedTable)
       IN  /\ idx' = m.idx
           /\ dat' = m.dat
           /\ op' = [name |-> "merge_and_flush", res |-> m.res]
    /\ mrg' = [mrg EXCEPT !.phase = "merged"]
    /\ UNCHANGED <<mem_table, max_size, levels, written, hist>>

CodecNext == FlushInputs \/ MergeAndFlush

CodecSpec == CodecInit /\ [][CodecNext]_vars

----------------------------------------------------------------------------
(* Properties of the codec, under CodecSpec *)

\* C10: merging two tables written from streams that are sorted by key with
\* unique keys (keys hold no separator) gives a table whose records are
\* sorted by key with unique keys, whose key set is the union of both key
\* sets, and whose value for a key is the left stream's value where the left
\* stream has the key, the right stream's value otherwise.
C10_MergeIsOrderedUnion ==
    mrg.phase = "merged" =>
        LET out == TableRecords(idx, dat, MergedTable)
        IN  /\ op.res.tag = "Ok"
            /\ StrictlySorted(out)
            /\ KeysOf(out) = KeysOf(mrg.left) \cup KeysOf(mrg.right)
            /\ \A k \in KeysOf(mrg.left) :
                    ValuesOf(out, k) = ValuesOf(mrg.left, k)
            /\ \A k \in KeysOf(mrg.right) \ KeysOf(mrg.left) :
                    ValuesOf(out, k) = ValuesOf(mrg.right, k)

\* C10's case: both streams hold two records, they share a key to which they
\* give different values, and the merge has written its table
C10_Witness ==
    /\ mrg.phase = "merged"
    /\ Len(mrg.left) = 2
    /\ Len(mrg.right) = 2
    /\ \E k \in KeysOf(mrg.left) \cap KeysOf(mrg.right) :
            ValuesOf(mrg.left, k) # ValuesOf(mrg.right, k)
    /\ KeysOf(mrg.left) # KeysOf(mrg.right)
    /\ Len(TableRecords(idx, dat, MergedTable)) = 3

----------------------------------------------------------------------------
(* One table on its own: a stream of records, in any order and with keys   *)
(* that may repeat, is flushed to a table and the table is iterated, as in *)
(* the tests flushes and iterates of src/io/table.rs                       *)

\* a value long enough for the offsets behind it to take two digits
LongValue == <<"y", "y", "y", "y", "y", "y", "y", "y", "y", "y", "y">>

FlushValues == {<<>>, <<"x">>, LongValue}

\* the record streams of at most MaxStream records
FlushStreams ==
    UNION {[1..m -> [key : Keys, value : FlushValues]] : m \in 0..MaxStream}

TableInit ==
    /\ mem_table = <<>>
    /\ max_size = MaxM
    /\ levels = <<>>
    /\ idx = EmptyFS
    /\ dat = EmptyFS
    /\ op = NoOp
    /\ written = EmptyFS
    /\ hist = NoHist
    /\ mrg \in [phase : {"new"}, left : FlushStreams, right : {<<>>}]

\* flush(table, stream)
FlushTable ==
    /\ mrg.phase = "new"
    /\ LET f == flush(idx, dat, LeftTable, mrg.left)
       IN  /\ idx' = f.idx
           /\ dat' = f.dat
           /\ op' = [name |-> "flush", res |-> f.res]
    /\ mrg' = [mrg EXCEPT !.phase = "flushed"]
    /\ UNCHANGED <<mem_table, max_size, levels, written, hist>>

\* iterate_entries(table), the whole stream collected
IterateEntries ==
    /\ mrg.phase = "flushed"
    /\ op' = [name |-> "iterate_entries",
              res |-> iterate_entries(idx, dat, LeftTable)]
    /\ mrg' = [mrg EXCEPT !.phase = "iterated"]
    /\ UNCHANGED <<mem_table, max_size, levels, idx, dat, written, hist>>

TableNext == FlushTable \/ IterateEntries

TableSpec == TableInit /\ [][TableNext]_vars

----------------------------------------------------------------------------
(* Properties of one table, under TableSpec *)

\* C11: flush(B, X) followed by iterate_entries(B) yields exactly X, for every
\* record sequence X whose keys and values hold no ':', ',' or newline: the
\* same records with the same values in the same order, none of them an Err.
C11_FlushIterateRoundTrip ==
    op.name = "iterate_entries" =>
        op.res = Ok([i \in 1..Len(mrg.left) |-> Ok(mrg.left[i])])

\* C11's case: a stream of two records that is not sorted, whose first value
\* is long, so that the second offset takes two digits, was flushed and
\* iterated
C11_Witness ==
    /\ op.name = "iterate_entries"
    /\ Len(mrg.left) = 2
    /\ StrLess(mrg.left[2].key, mrg.left[1].key)
    /\ mrg.left[1].value = LongValue
    /\ mrg.left[2].value = <<"x">>

\* C12: file_contains(B, key) is true exactly when the index of B has an
\* entry whose key is key itself, not when key is only a proper prefix of a
\* stored key; and read(B, key), when it returns a value, returns a value
\* that was stored under key.
C12_ContainsExactKey ==
    mrg.phase # "new" =>
        \A key \in Keys :
            /\ file_contains(idx, LeftTable, key)
                    = Ok(key \in KeysOf(mrg.left))
            /\ IsOk(read(idx, dat, LeftTable, key)) =>
                    read(idx, dat, LeftTable, key).val \in ValuesOf(mrg.left, key)

\* the lengths of the values of the first n records of a stream, summed
RECURSIVE SumLen(_, _)
SumLen(records, n) ==
    IF n = 0 THEN 0 ELSE SumLen(records, n - 1) + Len(records[n].value)

\* the values of a stream from record i on, concatenated
RECURSIVE ConcatValues(_, _)
ConcatValues(records, i) ==
    IF i > Len(records) THEN <<>>
    ELSE records[i].value \o ConcatValues(records, i + 1)

\* C14: flush(B, records) writes to B.data the values concatenated in the
\* order given, and to B.index the lines key_i:offset_i,length_i joined by
\* newlines with no newline after the last, offset_i being the sum of the
\* lengths of the values before the i-th (0 for the first) and length_i the
\* length of the i-th value, both in decimal.
C14_FlushLayout ==
    mrg.phase # "new" =>
        /\ op.name = "flush" => op.res = Ok(<<>>)
        /\ dat[LeftTable] = ConcatValues(mrg.left, 1)
        /\ LET ls == Split(idx[LeftTable], "\n")
           IN  /\ mrg.left = <<>> => idx[LeftTable] = <<>>
               /\ mrg.left # <<>> => Len(ls) = Len(mrg.left)
               /\ \A i \in 1..Len(mrg.left) :
                    LET parts == Split(ls[i], ":")
                        numbers == Split(parts[2], ",")
                    IN  /\ Len(parts) = 2
                        /\ Len(numbers) = 2
                        /\ parts[1] = mrg.left[i].key
                        /\ ParseU32(numbers[1]) = Ok(SumLen(mrg.left, i - 1))
                        /\ ParseU32(numbers[2]) = Ok(Len(mrg.left[i].value))
                        /\ numbers[1] = FormatInt(SumLen(mrg.left, i - 1))
                        /\ numbers[2] = FormatInt(Len(mrg.left[i].value))

\* C14's case: two records were flushed, the first with a long value, so the
\* second line carries an offset of two digits
C14_Witness ==
    /\ mrg.phase = "flushed"
    /\ Len(mrg.left) = 2
    /\ mrg.left[1].value = LongValue
    /\ mrg.left[2].value # <<>>
    /\ Len(dat[LeftTable]) > Len(LongValue)

----------------------------------------------------------------------------
(* load by name: a table name and a directory of files, some of them of    *)
(* other trees, as in the test loads of src/lsm/tree.rs, whose table name   *)
(* "test_files/load_test" has a directory part                             *)

\* the table names: one without a directory part, two with the directory y
DbNames == {<<"c">>, <<"y", "/", "c">>, <<"y", "/", "c", "u">>}

\* the part of a table name behind its last '/'
BaseName(db_name) ==
    IF MatchIndices(db_name, "/") = {} THEN db_name
    ELSE SubSeq(db_name, SetMax(MatchIndices(db_name, "/")) + 1, Len(db_name))

\* the file name of the index of table {base}-{level}-{index}
IndexFile(base, level, index) ==
    base \o <<"-">> \o FormatInt(level) \o <<"-">> \o FormatInt(index)
         \o IndexSuffix

\* the file names a directory may hold: index files of the trees c, cu and u,
\* a data file, a file that is no table
DirFiles ==
    {IndexFile(<<"c">>, 0, 1), IndexFile(<<"c">>, 0, 2), IndexFile(<<"c">>, 1, 1),
     IndexFile(<<"c", "u">>, 0, 1), IndexFile(<<"u">>, 0, 1),
     <<"u", "-", "0", "-", "1", ".", "d", "a", "t", "a">>, <<"b">>}

\* the tables <<level, index>> of the tree db_name whose index file is in dir
OwnTables(db_name, dir) ==
    {t \in (0..1) \X (1..2) : IndexFile(BaseName(db_name), t[1], t[2]) \in dir}

DirInit ==
    /\ mem_table = <<>>
    /\ max_size = MaxM
    /\ levels = <<>>
    /\ op = NoOp
    /\ written = EmptyFS
    /\ hist = NoHist
    /\ mrg \in [phase : {"new"}, left : DbNames, right : SUBSET DirFiles]
    /\ idx = [t \in OwnTables(mrg.left, mrg.right) |-> <<>>]
    /\ dat = [t \in OwnTables(mrg.left, mrg.right) |-> <<>>]

\* LsmTree::load(table_name)
LoadName ==
    /\ mrg.phase = "new"
    /\ LET l == LoadByName(mrg.left, mrg.right)
       IN  /\ levels' = IF IsOk(l) THEN l.val ELSE levels
           /\ op' = [name |-> "load",
                     res |-> IF IsOk(l) THEN Ok(<<>>) ELSE l]
    /\ hist' = [hist EXCEPT !.loaded = TRUE]
    /\ mrg' = [mrg EXCEPT !.phase = "loaded"]
    /\ UNCHANGED <<mem_table, max_size, idx, dat, written>>

DirNext == LoadName

DirSpec == DirInit /\ [][DirNext]_vars

----------------------------------------------------------------------------
(* Properties of load by name, under DirSpec *)

\* C22: load on a directory that holds no file whose name contains the name
\* of the tree returns ok with a tree of zero levels, and read on that tree
\* returns not_found for every key.
C22_LoadOfNothingIsEmpty ==
    (/\ mrg.phase = "loaded"
     /\ \A file \in mrg.right : ~Contains(file, BaseName(mrg.left))) =>
        /\ op.res = Ok(<<>>)
        /\ levels = <<>>
        /\ \A k \in Keys : Read(k) = Err("KeyNotFound")

----------------------------------------------------------------------------
(* Client::find_index on its own: a memtable that is sorted with unique    *)
(* keys, and a key to look for                                             *)

FindKeys == {<<"a">>, <<"a", "b">>, <<"b">>, <<"b", "a">>, <<"c">>}

SortedMemTables == SortedStreams(FindKeys, {<<"x">>}, Cardinality(FindKeys))

FindInit ==
    /\ mem_table \in SortedMemTables
    /\ max_size = MaxM
    /\ levels = <<>>
    /\ idx = EmptyFS
    /\ dat = EmptyFS
    /\ op = NoOp
    /\ written = EmptyFS
    /\ hist = NoHist
    /\ mrg \in [phase : {"new"}, left : FindKeys, right : {<<>>}]

\* self.find_index(key)
FindIndex ==
    /\ mrg.phase = "new"
    /\ op' = [name |-> "find_index", res |-> find_index(mem_table, mrg.left)]
    /\ mrg' = [mrg EXCEPT !.phase = "found"]
    /\ UNCHANGED <<mem_table, max_size, levels, idx, dat, written, hist>>

FindNext == FindIndex

FindSpec == FindInit /\ [][FindNext]_vars

\* the indices (0-based) of the entries of the memtable whose key is smaller
\* than key
SmallerIndices(key) ==
    {i \in 0..(Len(mem_table) - 1) : StrLess(mem_table[i + 1].key, key)}

\* C27: on a memtable sorted with unique keys, find_index(key) is EMPTY for
\* an empty memtable, Ok(i) with memtable[i].key = key when the key is
\* present, SMALLER when key is below every entry, LARGER when it is above
\* every entry, and otherwise MISSING(i) with i the index of the largest
\* entry smaller than key.
C27_FindIndexContract ==
    op.name = "find_index" =>
        IF mem_table = <<>> THEN op.res.tag = "EMPTY"
        ELSE IF mrg.left \in KeysOf(mem_table)
        THEN /\ op.res.tag = "Ok"
             /\ mem_table[op.res.val + 1].key = mrg.left
        ELSE IF SmallerIndices(mrg.left) = {} THEN op.res.tag = "SMALLER"
        ELSE IF Cardinality(SmallerIndices(mrg.left)) = Len(mem_table)
        THEN op.res.tag = "LARGER"
        ELSE op.res = [tag |-> "MISSING",
                       val |-> SetMax(SmallerIndices(mrg.left))]

----------------------------------------------------------------------------
(* merge_and_flush over tables whose index was damaged on disk: a line     *)
(* lost its position, so that iterate_entries yields an Err for it         *)

\* the index file of a table with the position of its i-th line cut off
CutLine(fi, file, i) ==
    LET ls == Lines(fi[file])
    IN  WriteFile(fi, file,
            Join([j \in 1..Len(ls) |->
                    IF j = i THEN Split(ls[j], ":")[1] ELSE ls[j]], <<"\n">>))

\* the entries of a table that iterate_entries yields as Err
ErrEntries(fi, fd, file) ==
    LET it == iterate_entries(fi, fd, file)
    IN  IF IsOk(it) THEN {i \in 1..Len(it.val) : ~IsOk(it.val[i])} ELSE {}

\* the keys of the entries of a table that iterate_entries yields as Ok
OkKeys(fi, fd, file) ==
    LET it == iterate_entries(fi, fd, file)
    IN  IF IsOk(it)
        THEN {it.val[i].val.key : i \in {j \in 1..Len(it.val) : IsOk(it.val[j])}}
        ELSE {}

\* a line of the index of an input table is damaged, once per table
DamageIndex(file, i) ==
    /\ mrg.phase = "flushed"
    /\ file \in {LeftTable, RightTable}
    /\ ErrEntries(idx, dat, file) = {}
    /\ i \in 1..Len(Lines(idx[file]))
    /\ idx' = CutLine(idx, file, i)
    /\ op' = [name |-> "damage", res |-> Ok(<<>>)]
    /\ UNCHANGED <<mem_table, max_size, levels, dat, written, hist, mrg>>

DamageNext ==
    \/ FlushInputs
    \/ \E file \in {LeftTable, RightTable}, i \in 1..MaxStream :
        DamageIndex(file, i)
    \/ MergeAndFlush

DamageSpec == CodecInit /\ [][DamageNext]_vars

\* C28: when an input table yields an Err entry, merge_and_flush returns to
\* its caller, and the table it wrote holds the keys of the entries that the
\* inputs yield as Ok.
C28_ErrEntryDoesNotAbort ==
    (/\ op.name = "merge_and_flush"
     /\ ErrEntries(idx, dat, LeftTable) \cup ErrEntries(idx, dat, RightTable) # {})
        => /\ op.res.tag # "Panic"
           /\ MergedTable \in DOMAIN idx
           /\ OkKeys(idx, dat, LeftTable) \cup OkKeys(idx, dat, RightTable)
                \subseteq OkKeys(idx, dat, MergedTable)

----------------------------------------------------------------------------
(* A MergeIter over Result elements, stepped with next: mrg.left and       *)
(* mrg.right are what is left of the two streams                           *)

\* Option<I>
Some(item) == [tag |-> "Some", val |-> item]

ResultElems == {Ok(KV(k, <<"x">>)) : k \in Keys} \cup {Err("BadFile")}

\* the streams of at most MaxStream Results whose Ok records are strictly
\* increasing by key, as iterate_entries yields them for a sorted table
ResultStreams ==
    {s \in UNION {[1..m -> ResultElems] : m \in 0..MaxStream} :
        \A i \in 1..Len(s) : \A j \in 1..Len(s) :
            (i < j /\ IsOk(s[i]) /\ IsOk(s[j])) =>
                StrLess(s[i].val.key, s[j].val.key)}

IterInit ==
    /\ mem_table = <<>>
    /\ max_size = MaxM
    /\ levels = <<>>
    /\ idx = EmptyFS
    /\ dat = EmptyFS
    /\ op = NoOp
    /\ written = EmptyFS
    /\ hist = NoHist
    /\ mrg \in [phase : {"iter"}, left : ResultStreams, right : ResultStreams]

\* MergeIter::next
IterStep ==
    /\ mrg.phase = "iter"
    /\ LET which == MergeWhich(mrg.left, mrg.right)
           n == MergeStep(which, mrg.left, mrg.right)
       IN  /\ op' = [name |-> "next", which |-> which,
                     res |-> IF n.item = <<>> THEN [tag |-> "None", val |-> <<>>]
                             ELSE Some(n.item[1])]
           /\ mrg' = [mrg EXCEPT !.left = n.l, !.right = n.r]
    /\ UNCHANGED <<mem_table, max_size, levels, idx, dat, written, hist>>

IterNext == IterStep

IterSpec == IterInit /\ [][IterNext]_vars

\* the head of a stream is an Err
HeadIsErr(s) == Len(s) > 0 /\ ~IsOk(s[1])

\* C29: a step of the MergeIter whose left head is Err yields that element
\* and leaves the right stream as it is; otherwise a step whose right head is
\* Err yields that element and leaves the left stream as it is.  A step with
\* an Err head takes one element from one stream, the one it yields.
C29_ErrHeadAdvancesOneSide ==
    [][op'.name = "next" =>
        /\ HeadIsErr(mrg.left) =>
            /\ op'.res = Some(mrg.left[1])
            /\ mrg'.left = Tail(mrg.left)
            /\ mrg'.right = mrg.right
        /\ (~HeadIsErr(mrg.left) /\ HeadIsErr(mrg.right)) =>
            /\ op'.res = Some(mrg.right[1])
            /\ mrg'.right = Tail(mrg.right)
            /\ mrg'.left = mrg.left]_vars

\* C29's case: the step yielded the Err at the head of the left stream while
\* the head of the right stream was an Ok record, which is still there
C29_Witness ==
    /\ op.name = "next"
    /\ op.which = Left(FALSE)
    /\ op.res = Some(Err("BadFile"))
    /\ Len(mrg.left) > 0
    /\ Len(mrg.right) > 0
    /\ IsOk(mrg.right[1])

----------------------------------------------------------------------------
(* MergeIter::default over two sorted streams of integers, collected, as   *)
(* in the test merges of src/lsm/merge_iter.rs                             *)

\* the comparator of MergeIter::default with a tie taking the left element
\* and dropping the right one, as kv_merge does
default_comparator_dedup(left, right) ==
    IF left < right THEN Left(FALSE)
    ELSE IF left > right THEN Right(FALSE)
    ELSE Left(TRUE)

\* the comparator of MergeIter::default
default_comparator(left, right) ==
    IF left <= right THEN Left(FALSE) ELSE Right(FALSE)

\* MergeIter::next, the first match, with the comparator of default
DefaultWhich(l, r) ==
    IF Len(l) > 0 /\ Len(r) > 0 THEN default_comparator(l[1], r[1])
    ELSE IF Len(l) > 0 THEN Left(FALSE)
    ELSE IF Len(r) > 0 THEN Right(FALSE)
    ELSE None

\* the stream MergeIter::default(l, r) yields until next returns None
RECURSIVE DefaultCollect(_, _)
DefaultCollect(l, r) ==
    LET n == MergeStep(DefaultWhich(l, r), l, r)
    IN  IF n.item = <<>> THEN <<>> ELSE n.item \o DefaultCollect(n.l, n.r)

\* the streams of at most MaxStream integers of 1..MaxElem that do not
\* decrease
IntStreams ==
    {s \in UNION {[1..m -> 1..MaxElem] : m \in 0..MaxStream} :
        \A i \in 1..Len(s) : \A j \in 1..Len(s) : i < j => s[i] <= s[j]}

DefaultInit ==
    /\ mem_table = <<>>
    /\ max_size = MaxM
    /\ levels = <<>>
    /\ idx = EmptyFS
    /\ dat = EmptyFS
    /\ op = NoOp
    /\ written = EmptyFS
    /\ hist = NoHist
    /\ mrg \in [phase : {"new"}, left : IntStreams, right : IntStreams]

\* MergeIter::default(left, right).collect()
DefaultMerge ==
    /\ mrg.phase = "new"
    /\ op' = [name |-> "collect", res |-> Ok(DefaultCollect(mrg.left, mrg.right))]
    /\ mrg' = [mrg EXCEPT !.phase = "merged"]
    /\ UNCHANGED <<mem_table, max_size, levels, idx, dat, written, hist>>

DefaultNext == DefaultMerge

DefaultSpec == DefaultInit /\ [][DefaultNext]_vars

\* how often v occurs in the stream s
Occurrences(s, v) == Cardinality({i \in 1..Len(s) : s[i] = v})

\* C30: MergeIter::default over two sorted streams yields a sorted stream of
\* |L| + |R| elements in which every value occurs as often as in both
\* inputs together, so that of two equal elements both are yielded.
C30_DefaultMergeKeepsAll ==
    op.name = "collect" =>
        /\ Len(op.res.val) = Len(mrg.left) + Len(mrg.right)
        /\ \A i \in 1..(Len(op.res.val) - 1) : op.res.val[i] <= op.res.val[i + 1]
        /\ \A v \in 1..MaxElem :
            Occurrences(op.res.val, v) =
                Occurrences(mrg.left, v) + Occurrences(mrg.right, v)

\* C30's case: both inputs hold the same element, and the merge was collected
C30_Witness ==
    /\ op.name = "collect"
    /\ \E i \in 1..Len(mrg.left) : \E j \in 1..Len(mrg.right) :
        mrg.left[i] = mrg.right[j]
    /\ Len(mrg.left) = MaxStream
    /\ Len(mrg.right) = MaxStream

----------------------------------------------------------------------------
(* MergeIter::next called until it returns None, with the comparator of    *)
(* records (result_merge over kv_merge) or the one of default.  written    *)
(* keeps the two inputs, hist.writes counts the elements yielded           *)

NextInit ==
    /\ mem_table = <<>>
    /\ max_size = MaxM
    /\ levels = <<>>
    /\ idx = EmptyFS
    /\ dat = EmptyFS
    /\ op = NoOp
    /\ hist = NoHist
    /\ \/ mrg \in [phase : {"record"}, left : ResultStreams, right : ResultStreams]
       \/ mrg \in [phase : {"default"}, left : IntStreams, right : IntStreams]
    /\ written = [left |-> mrg.left, right |-> mrg.right]

\* MergeIter::next with the decision which
NextWith(which) ==
    LET n == MergeStep(which, mrg.left, mrg.right)
    IN  /\ op' = [name |-> "next",
                  res |-> IF n.item = <<>> THEN [tag |-> "None", val |-> <<>>]
                          ELSE Some(n.item[1])]
        /\ mrg' = [mrg EXCEPT !.left = n.l, !.right = n.r]
        /\ hist' = [hist EXCEPT !.writes =
                        IF n.item = <<>> THEN hist.writes ELSE hist.writes + 1]
        /\ UNCHANGED <<mem_table, max_size, levels, idx, dat, written>>

\* next of a MergeIter made by kv_merge_iter
RecordNext ==
    /\ mrg.phase = "record"
    /\ NextWith(MergeWhich(mrg.left, mrg.right))

\* next of a MergeIter made by MergeIter::default
DefaultStep ==
    /\ mrg.phase = "default"
    /\ NextWith(DefaultWhich(mrg.left, mrg.right))

NextNext == RecordNext \/ DefaultStep

\* the caller goes on calling next
NextSpec == NextInit /\ [][NextNext]_vars /\ WF_vars(NextNext)

\* what is left of both streams
Remaining(m) == Len(m.left) + Len(m.right)

\* C34: a MergeIter over two finite inputs, with the comparator of records
\* or the default one, terminates: a call of next with an element left on a
\* side yields exactly one element and takes at least one from the inputs, a
\* call with both sides exhausted returns None, None is returned only then,
\* never more than |L| + |R| elements are yielded, and None is returned in
\* the end.
C34_MergeIterTerminates ==
    /\ [][op'.name = "next" =>
            IF Remaining(mrg) > 0
            THEN /\ op'.res.tag = "Some"
                 /\ hist'.writes = hist.writes + 1
                 /\ Remaining(mrg') < Remaining(mrg)
            ELSE op'.res.tag = "None" /\ mrg' = mrg]_vars
    /\ [](hist.writes <= Remaining(written))
    /\ []((op.name = "next" /\ op.res.tag = "None") => Remaining(mrg) = 0)
    /\ <>(op.name = "next" /\ op.res.tag = "None")

\* C34's case: two streams of records of full length with a key in common
\* were merged to the end, the tie took an element from both sides
C34_Witness ==
    /\ mrg.phase = "record"
    /\ op.name = "next"
    /\ op.res.tag = "None"
    /\ Len(written.left) = MaxStream
    /\ Len(written.right) = MaxStream
    /\ hist.writes < Remaining(written)

====
